---- MODULE Spec2Model ----
(***************************************************************************)
(* Model of B2BHolidays_Assignment_Manisha_Chollangi.py: the XML request   *)
(* extractor (parse_xml_request), the JSON response builder                *)
(* (generate_json_response) and the module-level try/except that runs one  *)
(* after the other.                                                        *)
(*                                                                         *)
(* Representation:                                                         *)
(*   - a Python value that may be None is a sequence of length 0 or 1:     *)
(*     None is <<>>, the value v is <<v>>;                                 *)
(*   - the text of optionsQuota is a sequence of characters, each          *)
(*     character a one-token string; "ar3" stands for U+0663               *)
(*     (ARABIC-INDIC DIGIT THREE, category Nd) and "sup2" for U+00B2       *)
(*     (SUPERSCRIPT TWO, category No, Numeric_Type=Digit);                 *)
(*   - the other element texts are strings;                                *)
(*   - floats are fixed point: prices in hundredths (132.42 is 13242),     *)
(*     the markup percentage and the exchange rates in tenths (3.2 is 32). *)
(***************************************************************************)
EXTENDS Integers, Sequences, FiniteSets, TLC

\* ------------------------------------------------------------------------
\* Bounds of the model
\* ------------------------------------------------------------------------
\* longest optionsQuota text enumerated character by character
MaxLen == 3

\* ------------------------------------------------------------------------
\* Python values
\* ------------------------------------------------------------------------
None == <<>>

Some(v) == <<v>>

\* ------------------------------------------------------------------------
\* Constants of the script
\* ------------------------------------------------------------------------
VALID_LANGUAGES == {"en", "fr", "de", "es"}

DEFAULT_LANGUAGE == "en"

DEFAULT_OPTIONS_QUOTA == 20

MAX_OPTIONS_QUOTA == 50

VALID_CURRENCIES == {"EUR", "USD", "GBP"}

DEFAULT_CURRENCY == "EUR"

VALID_NATIONALITIES == {"US", "GB", "CA"}

DEFAULT_NATIONALITY == "US"

VALID_MARKETS == {"US", "GB", "CA", "ES"}

DEFAULT_MARKET == "ES"

\* 3.2, in tenths of a percent
MARKUP_PERCENTAGE == 32

\* 1.0, 1.1, 0.9 in tenths
EXCHANGE_RATES == [EUR |-> 10, USD |-> 11, GBP |-> 9]

\* 132.42, in hundredths
net_price == 13242

REQUIRED_PARAMS == {"password", "username", "CompanyID"}

\* ------------------------------------------------------------------------
\* str.isdigit, int(str) and str(int)
\* ------------------------------------------------------------------------
AsciiDigits == {"0", "1", "2", "3", "4", "5", "6", "7", "8", "9"}

\* characters of category Nd: the ones int() reads as decimal digits
DecimalChars == AsciiDigits \cup {"ar3"}

\* characters str.isdigit() accepts: Nd and the other Numeric_Type=Digit ones
DigitChars == DecimalChars \cup {"sup2"}

WhitespaceChars == {" "}

DigitVal ==
  [c \in DecimalChars |->
     CASE c = "0" -> 0 [] c = "1" -> 1 [] c = "2" -> 2 [] c = "3" -> 3
       [] c = "4" -> 4 [] c = "5" -> 5 [] c = "6" -> 6 [] c = "7" -> 7
       [] c = "8" -> 8 [] c = "9" -> 9 [] c = "ar3" -> 3]

\* s.isdigit(): at least one character and all of them digits
isdigit(s) == Len(s) > 0 /\ \A i \in 1..Len(s) : s[i] \in DigitChars

RECURSIVE DecVal(_)
DecVal(s) ==
  IF s = <<>> THEN 0
  ELSE DecVal(SubSeq(s, 1, Len(s) - 1)) * 10 + DigitVal[s[Len(s)]]

RECURSIVE lstrip(_)
lstrip(s) ==
  IF s # <<>> /\ s[1] \in WhitespaceChars THEN lstrip(Tail(s)) ELSE s

RECURSIVE rstrip(_)
rstrip(s) ==
  IF s # <<>> /\ s[Len(s)] \in WhitespaceChars
  THEN rstrip(SubSeq(s, 1, Len(s) - 1)) ELSE s

\* int(s): surrounding whitespace is dropped, one sign is allowed, the rest
\* must be decimal digits; anything else raises ValueError.
\* The result is [ok |-> TRUE, val |-> n] or [ok |-> FALSE, val |-> 0].
int(s) ==
  LET t == rstrip(lstrip(s))
      signed == t # <<>> /\ t[1] \in {"-", "+"}
      body == IF signed THEN Tail(t) ELSE t
      good == body # <<>> /\ \A i \in 1..Len(body) : body[i] \in DecimalChars
  IN  IF ~good THEN [ok |-> FALSE, val |-> 0]
      ELSE [ok |-> TRUE,
            val |-> IF signed /\ t[1] = "-" THEN 0 - DecVal(body)
                    ELSE DecVal(body)]

DigitChar(d) ==
  CASE d = 0 -> "0" [] d = 1 -> "1" [] d = 2 -> "2" [] d = 3 -> "3"
    [] d = 4 -> "4" [] d = 5 -> "5" [] d = 6 -> "6" [] d = 7 -> "7"
    [] d = 8 -> "8" [] d = 9 -> "9"

\* str(n) for n >= 0
RECURSIVE str(_)
str(n) ==
  IF n < 10 THEN <<DigitChar(n)>>
  ELSE Append(str(n \div 10), DigitChar(n % 10))

\* round(num/den, 0) for num >= 0, den > 0: nearest integer, ties to even
round(num, den) ==
  LET q == num \div den
      r == num % den
  IN  IF 2 * r < den THEN q
      ELSE IF 2 * r > den THEN q + 1
      ELSE IF q % 2 = 0 THEN q ELSE q + 1

min(a, b) == IF a < b THEN a ELSE b

\* ------------------------------------------------------------------------
\* ElementTree
\* ------------------------------------------------------------------------
\* A document is a record: wf tells whether the string is well-formed
\* markup; each other field is what the first element at that path holds
\* (None when there is no such element, Some(text) otherwise, an element
\* without text holding the empty text). Parameter holds the set of
\* attribute names of the first Configuration/Parameters/Parameter element.
Paths ==
  {"languageCode", "optionsQuota", "SearchType", "StartDate", "EndDate",
   "Currency", "Nationality"}

\* root.findtext(path, default)
findtext(root, path, default) ==
  IF root[path] = None THEN default ELSE root[path]

\* root.find(".//Configuration/Parameters/Parameter")
find(root) == root.Parameter

\* ------------------------------------------------------------------------
\* parse_xml_request
\* ------------------------------------------------------------------------
\* ET.fromstring(xml_string): the root element, or ParseError
fromstring(xml_string) ==
  IF xml_string.wf THEN [ok |-> TRUE, root |-> xml_string]
  ELSE [ok |-> FALSE, root |-> xml_string]

language_unvalidated(root) ==
  findtext(root, "languageCode", Some(DEFAULT_LANGUAGE))[1]

\* language: the text when it is an allowed language, the default otherwise
language_of(root) ==
  LET language == findtext(root, "languageCode", Some(DEFAULT_LANGUAGE))
  IN  IF language[1] \in VALID_LANGUAGES THEN language[1]
      ELSE DEFAULT_LANGUAGE

options_quota_unclamped(root) ==
  LET options_quota == findtext(root, "optionsQuota", None)
  IN  IF options_quota # None /\ options_quota[1] # <<>>
         /\ isdigit(options_quota[1])
      THEN int(options_quota[1])
      ELSE [ok |-> TRUE, val |-> DEFAULT_OPTIONS_QUOTA]

\* options_quota: [ok |-> TRUE, val |-> n], or ok = FALSE when int() raises
options_quota_of(root) ==
  LET options_quota == findtext(root, "optionsQuota", None)
      parsed ==
        IF options_quota # None /\ options_quota[1] # <<>>
           /\ isdigit(options_quota[1])
        THEN int(options_quota[1])
        ELSE [ok |-> TRUE, val |-> DEFAULT_OPTIONS_QUOTA]
  IN  IF parsed.ok
      THEN [ok |-> TRUE, val |-> min(parsed.val, MAX_OPTIONS_QUOTA)]
      ELSE parsed

any_credentials(parameters) ==
  parameters # None /\ \E param \in REQUIRED_PARAMS : param \in parameters[1]

\* the negation of the condition that raises "Missing required parameters"
has_credentials(parameters) ==
  parameters # None /\ \A param \in REQUIRED_PARAMS : param \in parameters[1]

search_type_of(root) == findtext(root, "SearchType", Some("Single"))[1]

dates_swapped(root) ==
  <<findtext(root, "EndDate", None), findtext(root, "StartDate", None)>>

\* <<start_date, end_date>>
dates_of(root) ==
  <<findtext(root, "StartDate", None), findtext(root, "EndDate", None)>>

currency_of(root) ==
  LET currency == findtext(root, "Currency", Some(DEFAULT_CURRENCY))
  IN  IF currency[1] \in VALID_CURRENCIES THEN currency[1]
      ELSE DEFAULT_CURRENCY

nationality_from_currency(root) ==
  LET nationality == findtext(root, "Currency", Some(DEFAULT_NATIONALITY))
  IN  IF nationality[1] \in VALID_NATIONALITIES THEN nationality[1]
      ELSE DEFAULT_NATIONALITY

nationality_of(root) ==
  LET nationality == findtext(root, "Nationality", Some(DEFAULT_NATIONALITY))
  IN  IF nationality[1] \in VALID_NATIONALITIES THEN nationality[1]
      ELSE DEFAULT_NATIONALITY

NoValue == [language |-> "", options_quota |-> 0, search_type |-> "",
            start_date |-> None, end_date |-> None, currency |-> "",
            nationality |-> ""]

Raise(type, msg) ==
  [kind |-> "raise", type |-> type, msg |-> msg, value |-> NoValue]

Return(value) ==
  [kind |-> "return", type |-> "", msg |-> "", value |-> value]

\* The outcome of parse_xml_request(xml_string), statement by statement:
\* the first statement that raises decides it.
parse_xml_request(xml_string) ==
  LET tree == fromstring(xml_string)
      root == tree.root
      options_quota == options_quota_of(root)
  IN  IF ~tree.ok THEN Raise("ParseError", "not well-formed")
      ELSE IF ~options_quota.ok
      THEN Raise("ValueError", "invalid literal for int() with base 10")
      ELSE IF ~has_credentials(find(root))
      THEN Raise("ValueError",
             "Missing required parameters: password, username, or CompanyID")
      ELSE Return([language |-> language_of(root),
                   options_quota |-> options_quota.val,
                   search_type |-> search_type_of(root),
                   start_date |-> dates_of(root)[1],
                   end_date |-> dates_of(root)[2],
                   currency |-> currency_of(root),
                   nationality |-> nationality_of(root)])

\* ------------------------------------------------------------------------
\* generate_json_response
\* ------------------------------------------------------------------------
\* dict.get(key, default)
get(dict, key, default) ==
  IF key \in DOMAIN dict THEN dict[key] ELSE default

selling_price_truncated ==
  (net_price * (1000 + MARKUP_PERCENTAGE)) \div 1000

\* round(net_price * (1 + MARKUP_PERCENTAGE / 100), 2), in hundredths
selling_price ==
  round(net_price * (1000 + MARKUP_PERCENTAGE), 1000)

exchange_rate_by_nationality(parsed_data) ==
  get(EXCHANGE_RATES, parsed_data["nationality"], 10)

exchange_rate_of(parsed_data) ==
  get(EXCHANGE_RATES, parsed_data["currency"], 10)

market_by_market_key(parsed_data) ==
  get(parsed_data, "market", DEFAULT_MARKET)

market_of(parsed_data) ==
  get(parsed_data, "nationality", DEFAULT_MARKET)

\* the list json.dumps serialises: current_time is the strftime string,
\* supplier the random integer
generate_json_response(parsed_data, current_time, supplier) ==
  <<[id |-> "A#" \o current_time,
     hotelCodeSupplier |-> str(supplier),
     market |-> market_of(parsed_data),
     price |-> [minimumSellingPrice |-> None,
                currency |-> parsed_data["currency"],
                net |-> net_price,
                selling_price |-> selling_price,
                selling_currency |-> parsed_data["currency"],
                markup |-> MARKUP_PERCENTAGE,
                exchange_rate |-> exchange_rate_of(parsed_data)]]>>

\* ------------------------------------------------------------------------
\* Inputs
\* ------------------------------------------------------------------------
Opt(S) == {None} \cup {Some(v) : v \in S}

\* all character sequences of length at most n over the alphabet A
RECURSIVE Texts(_, _)
Texts(A, n) ==
  IF n = 0 THEN {<<>>}
  ELSE LET shorter == Texts(A, n - 1)
       IN  shorter \cup {Append(t, c) : t \in shorter, c \in A}

QuotaChars == {"0", "1", "5", "ar3", "sup2", "-", " ", "x"}

QuotaSamples ==
  {<<"2", "0">>, <<"5", "1">>, <<"sup2">>, <<"x">>}

ParameterSamples == Opt(SUBSET REQUIRED_PARAMS)

Times == {"20241014093000", "20241014093001"}

Suppliers == {10000000, 99999999}

MalformedDoc ==
  [wf |-> FALSE, languageCode |-> None, optionsQuota |-> None,
   Parameter |-> None, SearchType |-> None, StartDate |-> None,
   EndDate |-> None, Currency |-> None, Nationality |-> None]

\* the xml_input of the script
SampleDoc ==
  [wf |-> TRUE, languageCode |-> Some("en"),
   optionsQuota |-> Some(<<"2", "0">>),
   Parameter |-> Some(REQUIRED_PARAMS), SearchType |-> Some("Multiple"),
   StartDate |-> Some("14/10/2024"), EndDate |-> Some("16/10/2024"),
   Currency |-> Some("USD"), Nationality |-> Some("US")]

\* documents that vary every field, with a few optionsQuota texts
Docs ==
  {MalformedDoc} \cup
  [wf : {TRUE},
   languageCode : Opt({"en", "fr", "xx", ""}),
   optionsQuota : Opt(QuotaSamples),
   Parameter : ParameterSamples,
   SearchType : Opt({"Multiple", ""}),
   StartDate : Opt({"14/10/2024"}),
   EndDate : Opt({"16/10/2024"}),
   Currency : Opt({"USD", "GBP", "XYZ", ""}),
   Nationality : Opt({"US", "GB", "ES"})]

\* documents that vary the optionsQuota text over every character sequence
QuotaDocs ==
  {MalformedDoc} \cup
  {[SampleDoc EXCEPT !.optionsQuota = q, !.Parameter = p, !.Currency = c] :
     q \in Opt(Texts(QuotaChars, MaxLen)),
     p \in {None, Some(REQUIRED_PARAMS), Some({"password", "username"})},
     c \in {Some("USD"), Some("XYZ")}}

\* ------------------------------------------------------------------------
\* The script: the module-level try/except
\* ------------------------------------------------------------------------
\* xml_input: the input document
\* pc: "start", "parsed", "generated", "raised", "done" or "crashed"
\* parsed_data: None until parse_xml_request returned
\* json_response: None until generate_json_response returned
\* exc: the exception in flight, None when there is none
\* stdout: what print() wrote, a sequence of JSON documents
VARIABLES xml_input, pc, parsed_data, json_response, exc, stdout

vars == <<xml_input, pc, parsed_data, json_response, exc, stdout>>

InitWith(docs) ==
  /\ xml_input \in docs
  /\ pc = "start"
  /\ parsed_data = None
  /\ json_response = None
  /\ exc = None
  /\ stdout = <<>>

Init == InitWith(Docs)

InitQuota == InitWith(QuotaDocs)

\* parsed_data = parse_xml_request(xml_input)
CallParse ==
  /\ pc = "start"
  /\ LET outcome == parse_xml_request(xml_input)
     IN  IF outcome.kind = "return"
         THEN /\ parsed_data' = Some(outcome.value)
              /\ pc' = "parsed"
              /\ exc' = exc
         ELSE /\ exc' = Some([type |-> outcome.type, msg |-> outcome.msg])
              /\ pc' = "raised"
              /\ parsed_data' = parsed_data
  /\ UNCHANGED <<xml_input, json_response, stdout>>

\* json_response = generate_json_response(parsed_data)
CallGenerate ==
  /\ pc = "parsed"
  /\ \E current_time \in Times, supplier \in Suppliers :
       json_response' =
         Some(generate_json_response(parsed_data[1], current_time, supplier))
  /\ pc' = "generated"
  /\ UNCHANGED <<xml_input, parsed_data, exc, stdout>>

\* print(json_response)
PrintResponse ==
  /\ pc = "generated"
  /\ stdout' = Append(stdout, [kind |-> "offers", offers |-> json_response[1],
                               error |-> ""])
  /\ pc' = "done"
  /\ UNCHANGED <<xml_input, parsed_data, json_response, exc>>

\* except ValueError as e: print(json.dumps({"error": str(e)}, indent=4))
ExceptValueError ==
  /\ pc = "raised"
  /\ exc[1].type = "ValueError"
  /\ stdout' = Append(stdout, [kind |-> "error", offers |-> <<>>,
                               error |-> exc[1].msg])
  /\ exc' = None
  /\ pc' = "done"
  /\ UNCHANGED <<xml_input, parsed_data, json_response>>

\* an exception no except clause matches leaves the script: the interpreter
\* prints the traceback on stderr and exits, nothing is written to stdout
Uncaught ==
  /\ pc = "raised"
  /\ exc[1].type # "ValueError"
  /\ pc' = "crashed"
  /\ UNCHANGED <<xml_input, parsed_data, json_response, exc, stdout>>

Next ==
  \/ CallParse
  \/ CallGenerate
  \/ PrintResponse
  \/ ExceptValueError
  \/ Uncaught

Spec == Init /\ [][Next]_vars

SpecQuota == InitQuota /\ [][Next]_vars

\* ------------------------------------------------------------------------
\* Properties
\* ------------------------------------------------------------------------
\* the offer objects produced so far: those of json_response and of stdout
Offers ==
  (IF json_response = None THEN {}
   ELSE {json_response[1][i] : i \in 1..Len(json_response[1])})
  \cup UNION {{stdout[k].offers[i] : i \in 1..Len(stdout[k].offers)} :
                k \in {j \in 1..Len(stdout) : stdout[j].kind = "offers"}}

Finished == pc \in {"done", "crashed"}

EmittedOneOf(kinds) == Len(stdout) = 1 /\ stdout[1].kind \in kinds

AllCredentials ==
  /\ xml_input.Parameter # None
  /\ "password" \in xml_input.Parameter[1]
  /\ "username" \in xml_input.Parameter[1]
  /\ "CompanyID" \in xml_input.Parameter[1]

\* C1: every run ends by printing the offer array or the error object,
\* never with an uncaught exception; a malformed document ends in the error
\* object.
C1_AlwaysADocument ==
  /\ pc # "crashed"
  /\ pc = "done" => EmittedOneOf({"offers", "error"})
  /\ (Finished /\ ~xml_input.wf) => EmittedOneOf({"error"})

\* C2: a well-formed document whose Parameter element is absent or lacks
\* one of password, username, CompanyID never yields a record, never reaches
\* generate_json_response, and the only document printed is the error
\* object.
C2_MissingCredentialsFailAtomically ==
  (xml_input.wf /\ ~AllCredentials /\ pc # "start") =>
    /\ parsed_data = None
    /\ json_response = None
    /\ pc \in {"raised", "done"}
    /\ \A k \in 1..Len(stdout) : stdout[k].kind = "error"
    /\ pc = "done" => EmittedOneOf({"error"})

C2_Witness ==
  /\ pc = "done"
  /\ xml_input.wf
  /\ xml_input.Parameter = Some({"password", "username"})
  /\ xml_input.optionsQuota = Some(<<"2", "0">>)
  /\ EmittedOneOf({"error"})
  /\ json_response = None

\* C3: a well-formed document with the three credential attributes always
\* yields a record and the offer array, whatever the other texts are.
C3_AnomaliesNeverErrors ==
  (xml_input.wf /\ AllCredentials /\ pc # "start") =>
    /\ parsed_data # None
    /\ pc \notin {"raised", "crashed"}
    /\ pc = "done" => EmittedOneOf({"offers"})

\* C4 as stated: every offer has selling_price =
\* round(net * (1 + markup/100), 2) = 136.58.
C4_SellingPriceIs13658 ==
  \A o \in Offers :
    /\ 2 * (IF 1000 * o.price.selling_price >= 13242 * (1000 + 32)
            THEN 1000 * o.price.selling_price - 13242 * (1000 + 32)
            ELSE 13242 * (1000 + 32) - 1000 * o.price.selling_price) <= 1000
    /\ o.price.selling_price = 13658

\* C4 amended: every offer has selling_price =
\* round(net * (1 + markup/100), 2), the nearest hundredth to 132.42 * 1.032,
\* and that value is 136.66; the sample input yields 136.66.
C4_SellingPriceIs13666 ==
  /\ \A o \in Offers :
       LET exact == o.price.net * (1000 + o.price.markup)
           shown == 1000 * o.price.selling_price
       IN  /\ o.price.net = 13242
           /\ o.price.markup = 32
           /\ 2 * (IF shown >= exact THEN shown - exact ELSE exact - shown)
                <= 1000
           /\ o.price.selling_price = 13666
  /\ (xml_input = SampleDoc /\ pc = "done") =>
       /\ EmittedOneOf({"offers"})
       /\ stdout[1].offers[1].price.selling_price = 13666

C4_Witness ==
  /\ pc = "done"
  /\ xml_input = SampleDoc
  /\ EmittedOneOf({"offers"})
  /\ stdout[1].offers[1].price.selling_price = 13666

\* a non-negative integer literal: one or more decimal digits
IsLiteral(t) == t # <<>> /\ \A i \in 1..Len(t) : t[i] \in DecimalChars

\* its value, most significant digit first
RECURSIVE LiteralValue(_, _)
LiteralValue(t, acc) ==
  IF t = <<>> THEN acc
  ELSE LiteralValue(Tail(t), 10 * acc + DigitVal[Head(t)])

\* C5: when parse_xml_request returns a record, options_quota is 50 for a
\* literal above 50, the integer itself for a literal of at most 50, and 20
\* when the element is absent, empty or not a non-negative integer literal.
C5_QuotaDefaultedAndClamped ==
  parsed_data # None =>
    LET q == xml_input.optionsQuota
        n == parsed_data[1].options_quota
    IN  IF q # None /\ IsLiteral(q[1])
        THEN /\ LiteralValue(q[1], 0) > 50 => n = 50
             /\ LiteralValue(q[1], 0) <= 50 => n = LiteralValue(q[1], 0)
        ELSE n = 20

C5_Witness ==
  /\ pc = "parsed"
  /\ xml_input.optionsQuota = Some(<<"5", "1">>)
  /\ parsed_data[1].options_quota = 50

Resolved(text, allowed, default) ==
  IF text # None /\ text[1] \in allowed THEN text[1] ELSE default

\* C6: in the record parse_xml_request returns, language, currency and
\* nationality each depend on their own element only: an allowed value is
\* kept, an absent, empty or other value becomes that field's default.
C6_FieldsResolvedIndependently ==
  parsed_data # None =>
    /\ parsed_data[1].language =
         Resolved(xml_input.languageCode, {"en", "fr", "de", "es"}, "en")
    /\ parsed_data[1].currency =
         Resolved(xml_input.Currency, {"EUR", "USD", "GBP"}, "EUR")
    /\ parsed_data[1].nationality =
         Resolved(xml_input.Nationality, {"US", "GB", "CA"}, "US")

C6_Witness ==
  /\ pc = "parsed"
  /\ xml_input.languageCode = None
  /\ xml_input.Currency = Some("XYZ")
  /\ xml_input.Nationality = Some("GB")
  /\ parsed_data[1].language = "en"
  /\ parsed_data[1].currency = "EUR"
  /\ parsed_data[1].nationality = "GB"

\* C7: every offer echoes the normalized currency in currency and
\* selling_currency, has markup 3.2 and the exchange rate of that currency
\* (EUR 1.0, USD 1.1, GBP 0.9); the currency is always in the table, and an
\* input currency XYZ gives EUR at 1.0.
C7_CurrencyAndExchangeRate ==
  \A o \in Offers :
    /\ parsed_data # None
    /\ o.price.currency = parsed_data[1].currency
    /\ o.price.selling_currency = parsed_data[1].currency
    /\ o.price.markup = 32
    /\ o.price.currency \in {"EUR", "USD", "GBP"}
    /\ o.price.exchange_rate =
         (CASE o.price.currency = "EUR" -> 10
            [] o.price.currency = "USD" -> 11
            [] o.price.currency = "GBP" -> 9)
    /\ xml_input.Currency = Some("XYZ") =>
         (o.price.currency = "EUR" /\ o.price.exchange_rate = 10)

C7_Witness ==
  /\ pc = "done"
  /\ xml_input.Currency = Some("GBP")
  /\ EmittedOneOf({"offers"})
  /\ stdout[1].offers[1].price.currency = "GBP"
  /\ stdout[1].offers[1].price.exchange_rate = 9

\* C8: a returned record and every offer hold allowed values only: language
\* in {en,fr,de,es}, currency and selling_currency in {EUR,USD,GBP},
\* nationality and market in {US,GB,CA}, options_quota in 0..50.
C8_NoInvalidEnumValue ==
  /\ parsed_data # None =>
       /\ parsed_data[1].language \in {"en", "fr", "de", "es"}
       /\ parsed_data[1].currency \in {"EUR", "USD", "GBP"}
       /\ parsed_data[1].nationality \in {"US", "GB", "CA"}
       /\ parsed_data[1].options_quota \in 0..50
  /\ \A o \in Offers :
       /\ o.price.currency \in {"EUR", "USD", "GBP"}
       /\ o.price.selling_currency \in {"EUR", "USD", "GBP"}
       /\ o.market \in {"US", "GB", "CA"}

C8_Witness ==
  /\ pc = "done"
  /\ xml_input.languageCode = Some("xx")
  /\ xml_input.Currency = Some("XYZ")
  /\ xml_input.Nationality = Some("ES")
  /\ xml_input.optionsQuota = Some(<<"5", "1">>)
  /\ EmittedOneOf({"offers"})
  /\ parsed_data[1].language = "en"

\* the document built from a normalized record: one element per field
\* holding the field's value (options_quota through str()), no element for
\* a field that is None, and a Parameter element with the three attributes
DocumentOf(record) ==
  [wf |-> TRUE,
   languageCode |-> Some(record.language),
   optionsQuota |-> Some(str(record.options_quota)),
   Parameter |-> Some({"password", "username", "CompanyID"}),
   SearchType |-> Some(record.search_type),
   StartDate |-> record.start_date,
   EndDate |-> record.end_date,
   Currency |-> Some(record.currency),
   Nationality |-> Some(record.nationality)]

\* C9: parsing the document built from a returned record returns the same
\* record.
C9_NormalizationIdempotent ==
  parsed_data # None =>
    LET again == parse_xml_request(DocumentOf(parsed_data[1]))
    IN  /\ again.kind = "return"
        /\ again.value = parsed_data[1]

C9_Witness ==
  /\ pc = "parsed"
  /\ xml_input.languageCode = Some("xx")
  /\ xml_input.optionsQuota = Some(<<"5", "1">>)
  /\ xml_input.SearchType = None
  /\ xml_input.StartDate = Some("14/10/2024")
  /\ xml_input.EndDate = None
  /\ DocumentOf(parsed_data[1]) # xml_input
  /\ parse_xml_request(DocumentOf(parsed_data[1])).value = parsed_data[1]

\* C10: every offer's market is the normalized nationality, read from a
\* record that has the nationality key, and it is never ES.
C10_MarketIsNationality ==
  \A o \in Offers :
    /\ parsed_data # None
    /\ "nationality" \in DOMAIN parsed_data[1]
    /\ o.market = parsed_data[1].nationality
    /\ o.market # "ES"

C10_Witness ==
  /\ pc = "done"
  /\ xml_input.Nationality = Some("ES")
  /\ EmittedOneOf({"offers"})
  /\ stdout[1].offers[1].market = "US"

====
